---------------------------- MODULE Spec2Model ----------------------------
(***************************************************************************)
(* Real-time fraud detection server (src/unnamed/part_000): the Vapi       *)
(* webhook handler, the WebSocket alert socket, the keep-alive prober and  *)
(* the TTL cleanup of buffered FRAUD_ALERTs.                               *)
(*                                                                         *)
(* Node runs every handler and timer callback to completion on one thread, *)
(* so each callback is one atomic action.  Strings that the code inspects  *)
(* character by character (transcripts, keywords) are sequences of         *)
(* one-character strings; Devanagari characters are named by code point.   *)
(* Time is Date.now() counted in units of Unit milliseconds, the period of *)
(* the cleanup timer.  The keep-alive timer, whose period is shorter than  *)
(* a unit, fires at any moment: the claims about it count its cycles.      *)
(***************************************************************************)
EXTENDS Integers, Sequences, FiniteSets, TLC

VARIABLES
    now,                   \* Date.now(), in units of Unit ms
    swept,                 \* the cleanup timer has fired at this instant
    connectedApps,         \* Set of sockets, in insertion order
    wss_clients,           \* wss.clients, the socket server's own set
    readyState,            \* ws.readyState of every socket
    isAlive,               \* ws.isAlive of every socket
    sendFails,             \* the transport of the socket raises on send()
    fraudTriggeredCalls,   \* Set of callIds
    lastFraudAlertByCall,  \* Map callId -> { event, ts }, in insertion order
    alerts,                \* history: FRAUD_ALERT broadcasts of a callId since its last retirement
    retired,               \* history: the callId has been retired by a status-update
    unanswered,            \* history: keep-alive cycles a socket has seen since it attached
    received,              \* history: copies of the latest FRAUD_ALERT of a callId sent to a connection
                           \*   without ever answering a ping; -1 once it has answered
    request,               \* the webhook request waiting to be handled (SpecClassify)
    last                   \* history: the last callback that ran and its outputs

vars == <<now, swept, connectedApps, wss_clients, readyState, isAlive,
          sendFails, fraudTriggeredCalls, lastFraudAlertByCall,
          alerts, retired, unanswered, received, request, last>>

-----------------------------------------------------------------------------
(* Bounds of the model *)

MaxTime == 5               \* the clock stops advancing here
MaxFrags == 3              \* fragments per generated transcript (SpecClassify)

Sockets == {"ws1", "ws2"}
CallIds == {"c1", "unknown"}

(* Time scale, the replay TTL and the period of the cleanup timer, in units *)
Unit == 30 * 1000
TTL == (2 * 60 * 1000) \div Unit
SweepInterval == 30000 \div Unit

-----------------------------------------------------------------------------
(* JavaScript helpers *)

Truthy(x) == x # ""

\* a || b || c on strings
Or3(a, b, c) == IF Truthy(a) THEN a ELSE IF Truthy(b) THEN b ELSE c

Range(s) == {s[i] : i \in 1..Len(s)}

Min(a, b) == IF a < b THEN a ELSE b

UpperToLower ==
    [c \in {"A","B","C","D","E","F","G","H","I","J","K","L","M",
            "N","O","P","Q","R","S","T","U","V","W","X","Y","Z"} |->
       CASE c = "A" -> "a" [] c = "B" -> "b" [] c = "C" -> "c" [] c = "D" -> "d"
         [] c = "E" -> "e" [] c = "F" -> "f" [] c = "G" -> "g" [] c = "H" -> "h"
         [] c = "I" -> "i" [] c = "J" -> "j" [] c = "K" -> "k" [] c = "L" -> "l"
         [] c = "M" -> "m" [] c = "N" -> "n" [] c = "O" -> "o" [] c = "P" -> "p"
         [] c = "Q" -> "q" [] c = "R" -> "r" [] c = "S" -> "s" [] c = "T" -> "t"
         [] c = "U" -> "u" [] c = "V" -> "v" [] c = "W" -> "w" [] c = "X" -> "x"
         [] c = "Y" -> "y" [] c = "Z" -> "z"]

\* String.prototype.toLowerCase
toLowerCase(s) ==
    [i \in 1..Len(s) |-> IF s[i] \in DOMAIN UpperToLower THEN UpperToLower[s[i]] ELSE s[i]]

\* String.prototype.includes
includes(text, k) ==
    \E i \in 0..(Len(text) - Len(k)) : SubSeq(text, i + 1, i + Len(k)) = k

\* Array.prototype.filter, keeping the order of the array
RECURSIVE filter(_, _)
filter(arr, text) ==
    IF arr = <<>> THEN <<>>
    ELSE IF includes(text, Head(arr))
         THEN <<Head(arr)>> \o filter(Tail(arr), text)
         ELSE filter(Tail(arr), text)

\* [...new Set(arr)]: the first occurrence of every element, in order
RECURSIVE dedupe(_)
dedupe(arr) ==
    IF arr = <<>> THEN <<>>
    ELSE LET init == dedupe(SubSeq(arr, 1, Len(arr) - 1))
             x == arr[Len(arr)]
         IN IF x \in Range(init) THEN init ELSE Append(init, x)

\* Set.prototype.add / delete on an insertion-ordered Set
SetAdd(s, x) == IF x \in Range(s) THEN s ELSE Append(s, x)
SetDelete(s, x) == SelectSeq(s, LAMBDA y : y # x)

\* Map.prototype.has / set / delete on an insertion-ordered Map
MapKeys(m) == {m[i].key : i \in 1..Len(m)}
MapSet(m, k, v) ==
    IF k \in MapKeys(m)
    THEN [i \in 1..Len(m) |-> IF m[i].key = k THEN [key |-> k, value |-> v] ELSE m[i]]
    ELSE Append(m, [key |-> k, value |-> v])
MapDeleteMut(m, k) == m
MapDelete(m, k) == SelectSeq(m, LAMBDA e : e.key # k)

-----------------------------------------------------------------------------
(* Fraud keywords *)

fraudKeywords ==
    LET list == <<
    <<"o","t","p">>,
    <<"o","n","e"," ","t","i","m","e"," ","p","a","s","s","w","o","r","d">>,
    <<"p","i","n">>,
    <<"c","v","v">>,
    <<"p","a","s","s","w","o","r","d">>,
    <<"k","y","c">>,
    <<"a","c","c","o","u","n","t"," ","b","l","o","c","k","e","d">>,
    <<"b","l","o","c","k","e","d">>,
    <<"s","u","s","p","e","n","d","e","d">>,
    <<"p","a","y"," ","n","o","w">>,
    <<"t","r","a","n","s","f","e","r">>,
    <<"s","e","n","d"," ","m","o","n","e","y">>,
    <<"u","p","i">>,
    <<"v","e","r","i","f","y"," ","y","o","u","r"," ","a","c","c","o","u","n","t">>,
    <<"a","r","r","e","s","t">>,
    <<"p","o","l","i","c","e">>,
    <<"c","b","i">>,
    <<"i","n","c","o","m","e"," ","t","a","x">>,
    <<"l","e","g","a","l"," ","a","c","t","i","o","n">>,
    <<"a","n","y","d","e","s","k">>,
    <<"t","e","a","m","v","i","e","w","e","r">>,
    \* Hindi / Hinglish
    <<"U0917","U093F","U0930","U092B","U094D","U0924","U093E","U0930">>,
    <<"U0915","U0947","U0935","U093E","U0908","U0938","U0940">>,
    <<"U092C","U094D","U0932","U0949","U0915">>,
    <<"U092A","U0948","U0938","U0947"," ","U092D","U0947","U091C","U094B">>,
    <<"U0913","U091F","U0940","U092A","U0940">>,
    <<"U092A","U093F","U0928">> >>
    IN [i \in 1..Len(list) |-> toLowerCase(list[i])]

\* severity: detected.length >= 2 ? 'HIGH' : 'MEDIUM'
severityMut(detected) == IF Len(detected) > 2 THEN "HIGH" ELSE "MEDIUM"
severity(detected) == IF Len(detected) >= 2 THEN "HIGH" ELSE "MEDIUM"

\* confidence: Math.min(95, detected.length * 30)
confidence(detected) == Min(95, Len(detected) * 30)

-----------------------------------------------------------------------------
(* Inputs *)

\* transcripts of the webhook events: one without and one with indicators
Hi == <<"h","i">>
OtpKyc == <<"O","T","P"," ","k","y","c">>
Transcripts == {Hi, OtpKyc}

\* transcripts fed to the classifier alone: the example of the specification,
\* and every concatenation of at most MaxFrags of these fragments
ShareOtpKyc ==
    <<"p","l","e","a","s","e"," ","s","h","a","r","e"," ","y","o","u","r"," ",
      "o","t","p"," ","f","o","r"," ","k","y","c"," ",
      "v","e","r","i","f","i","c","a","t","i","o","n">>

Fragments ==
    {<<"o","t","p">>, <<"O","t","P">>, <<"o","t">>, <<" ">>, <<"K","Y","C">>,
     <<"a","c","c","o","u","n","t"," ">>, <<"b","l","o","c","k","e","d">>,
     <<"o","n","e"," ","t","i","m","e"," ","p","a","s","s","w","o","r","d">>,
     <<"U092A","U093F","U0928">>}

RECURSIVE Concats(_)
Concats(n) ==
    IF n = 0 THEN {<<>>}
    ELSE LET shorter == Concats(n - 1)
         IN shorter \cup {t \o f : t \in shorter, f \in Fragments}

ClassifierTexts == Concats(MaxFrags) \cup {ShareOtpKyc}

\* message.call?.id and message.callId; "" stands for an absent field
TranscriptMessages ==
    [type : {"transcript"}, call_id : {"", "c1"}, callId : {"", "c1"},
     transcript : Transcripts, transcriptType : {"final"}]

ToolArguments ==
    {[type |-> "object", value |-> "scamData"],
     [type |-> "string", value |-> "{\"upi\":\"a@b\"}"],
     [type |-> "string", value |-> "upi a@b"]}

\* message.toolCallList?.[0]
ToolCallsMessages ==
    [type : {"tool-calls"}, call_id : {"", "c1"},
     toolCall : [id : {"tc1"}, name : {"log_scam_data"}, arguments : ToolArguments]
                \cup {[id |-> "tc2", name |-> "other_tool",
                        arguments |-> [type |-> "object", value |-> "other"]]}]

StatusUpdateMessages ==
    [type : {"status-update"}, call_id : {"", "c1"}, callId : {"", "c1"},
     status : {"ended", "in-progress"}]

\* a body without a type, and an event kind the handler has no branch for
OtherMessages == [type : {"", "hang"}]

ClassifierMessages ==
    [type : {"transcript"}, call_id : {"c1"}, callId : {""},
     transcript : ClassifierTexts, transcriptType : {"final"}]

-----------------------------------------------------------------------------
(* Outputs *)

NoEvent == [type |-> "none"]
NoMessage == [type |-> "none"]

Ignored == [status |-> 200, body |-> "ignored"]
Success == [status |-> 200, body |-> "success"]
Logged(toolCallId) == [status |-> 200, body |-> "results", toolCallId |-> toolCallId, result |-> "Logged"]
\* an exception that leaves the handler: Express answers 500
ServerError == [status |-> 500, body |-> "error"]
NoResponse == [status |-> 0, body |-> "none"]

Last(op, input, event, sent, response, replays) ==
    [op |-> op, input |-> input, event |-> event, sent |-> sent,
     response |-> response, replays |-> replays]

-----------------------------------------------------------------------------
(* Initial state: the module has been loaded, nothing has connected *)

ServerInit ==
    /\ now = 0
    /\ swept = FALSE
    /\ connectedApps = <<>>
    /\ wss_clients = {}
    /\ readyState = [ws \in Sockets |-> "CLOSED"]
    /\ isAlive = [ws \in Sockets |-> TRUE]
    /\ sendFails = [ws \in Sockets |-> FALSE]
    /\ fraudTriggeredCalls = {}
    /\ lastFraudAlertByCall = <<>>
    /\ alerts = [k \in CallIds |-> 0]
    /\ retired = [k \in CallIds |-> FALSE]
    /\ unanswered = [ws \in Sockets |-> 0]
    /\ received = [ws \in Sockets |-> [k \in CallIds |-> 0]]
    /\ last = Last("init", "", NoEvent, <<>>, NoResponse, <<>>)

Init ==
    /\ ServerInit
    /\ request = NoMessage

-----------------------------------------------------------------------------
(* WebSocket: mobile app *)

\* now - ts < 2 * 60 * 1000
isRecentMut(t, ts) == t - ts <= TTL
isRecent(t, ts) == t - ts < TTL

\* the replay loop of the connection handler: what is sent to the new socket
RECURSIVE replayLoop(_, _)
replayLoop(entries, t) ==
    IF entries = <<>> THEN <<>>
    ELSE LET e == Head(entries).value
         IN IF isRecent(t, e.ts)
            THEN <<("replay" :> TRUE) @@ e.event>> \o replayLoop(Tail(entries), t)
            ELSE replayLoop(Tail(entries), t)

\* the copies of the buffered alert of callId k among the replays sent to w
Copies(recipients, replays, w, k) ==
    Cardinality({i \in 1..Len(replays) : recipients[i] = w /\ replays[i].callId = k})

\* ws.send of the replay loop: the socket each replayed copy is sent to
replayRecipientsMut(ws, replays) ==
    [i \in 1..(Len(replays) * Len(SetAdd(connectedApps, ws))) |->
        SetAdd(connectedApps, ws)[((i - 1) % Len(SetAdd(connectedApps, ws))) + 1]]
replayRecipients(ws, replays) == [i \in 1..Len(replays) |-> ws]

\* wss.on('connection'): the handshake of ws has completed, so the socket is
\* OPEN and its transport writable
Connection(ws) ==
    /\ ws \notin wss_clients
    /\ wss_clients' = wss_clients \cup {ws}
    /\ readyState' = [readyState EXCEPT ![ws] = "OPEN"]
    /\ sendFails' = [sendFails EXCEPT ![ws] = FALSE]
    /\ connectedApps' = SetAdd(connectedApps, ws)
    /\ isAlive' = [isAlive EXCEPT ![ws] = TRUE]
    /\ unanswered' = [unanswered EXCEPT ![ws] = 0]
    /\ LET replays == replayLoop(lastFraudAlertByCall, now)
           recipients == replayRecipients(ws, replays)
       IN /\ last' = Last("connection", ws, NoEvent, recipients, NoResponse, replays)
          /\ received' = [w \in Sockets |-> [k \in CallIds |->
                Min(received[w][k] + Copies(recipients, replays, w, k), 2)]]
    /\ UNCHANGED <<now, swept, fraudTriggeredCalls, lastFraudAlertByCall,
                   alerts, retired, request>>

\* ws.isAlive = true
heartbeatMut(ws) == isAlive
heartbeat(ws) == [isAlive EXCEPT ![ws] = TRUE]

\* ws.on('pong'); a pong while isAlive is already true changes nothing
Pong(ws) ==
    /\ ws \in wss_clients
    /\ readyState[ws] = "OPEN"
    /\ isAlive[ws] = FALSE
    /\ isAlive' = heartbeat(ws)
    /\ unanswered' = [unanswered EXCEPT ![ws] = -1]
    /\ last' = Last("pong", ws, NoEvent, <<>>, NoResponse, <<>>)
    /\ UNCHANGED <<now, swept, connectedApps, wss_clients, readyState,
                   sendFails, fraudTriggeredCalls, lastFraudAlertByCall,
                   alerts, retired, request, received>>

\* ws.on('close'): the peer closed, or the socket destroyed by terminate()
\* has reported its close
Close(ws) ==
    /\ ws \in wss_clients
    /\ wss_clients' = wss_clients \ {ws}
    /\ connectedApps' = SetDelete(connectedApps, ws)
    /\ readyState' = [readyState EXCEPT ![ws] = "CLOSED"]
    /\ isAlive' = [isAlive EXCEPT ![ws] = TRUE]
    /\ sendFails' = [sendFails EXCEPT ![ws] = FALSE]
    /\ unanswered' = [unanswered EXCEPT ![ws] = 0]
    /\ received' = [received EXCEPT ![ws] = [k \in CallIds |-> 0]]
    /\ last' = Last("close", ws, NoEvent, <<>>, NoResponse, <<>>)
    /\ UNCHANGED <<now, swept, fraudTriggeredCalls, lastFraudAlertByCall,
                   alerts, retired, request>>

\* The transport of an attached socket breaks while readyState is still
\* OPEN: from now on ws.send() raises
TransportFault(ws) ==
    /\ ws \in wss_clients
    /\ readyState[ws] = "OPEN"
    /\ ~sendFails[ws]
    /\ sendFails' = [sendFails EXCEPT ![ws] = TRUE]
    /\ last' = Last("fault", ws, NoEvent, <<>>, NoResponse, <<>>)
    /\ UNCHANGED <<now, swept, connectedApps, wss_clients, readyState,
                   isAlive, fraudTriggeredCalls, lastFraudAlertByCall,
                   alerts, retired, unanswered, request, received>>

-----------------------------------------------------------------------------
(* Timers *)

TimerDue(interval, fired) == now > 0 /\ now % interval = 0 /\ ~fired

\* ws.isAlive === false
missedPingMut(ws) == FALSE
missedPing(ws) == isAlive[ws] = FALSE

\* setInterval(..., 20000): keep WebSocket alive
\* The close event of a socket destroyed by terminate() is emitted on the
\* next turn of the event loop: it is handled before the timer fires again.
ProbeLiveness ==
    /\ \A ws \in wss_clients : readyState[ws] # "CLOSING"
    /\ readyState' = [ws \in Sockets |->
          IF ws \in wss_clients /\ missedPing(ws) THEN "CLOSING" ELSE readyState[ws]]
    /\ isAlive' = [ws \in Sockets |->
          IF ws \in wss_clients /\ ~missedPing(ws) THEN FALSE ELSE isAlive[ws]]
    /\ unanswered' = [ws \in Sockets |->
          IF ws \in wss_clients /\ unanswered[ws] >= 0
          THEN unanswered[ws] + 1 ELSE unanswered[ws]]
    /\ last' = Last("probe", "", NoEvent, <<>>, NoResponse, <<>>)
    /\ UNCHANGED <<now, swept, connectedApps, wss_clients, sendFails,
                   fraudTriggeredCalls, lastFraudAlertByCall, alerts, retired, request, received>>

\* now - ts > 2 * 60 * 1000
isExpired(t, ts) == t - ts > TTL

\* setInterval(..., 30000): cleanup old buffered alerts
Cleanup ==
    /\ TimerDue(SweepInterval, swept)
    /\ swept' = TRUE
    /\ lastFraudAlertByCall' =
          SelectSeq(lastFraudAlertByCall, LAMBDA e : ~isExpired(now, e.value.ts))
    /\ last' = Last("cleanup", "", NoEvent, <<>>, NoResponse, <<>>)
    /\ UNCHANGED <<now, connectedApps, wss_clients, readyState, isAlive,
                   sendFails, fraudTriggeredCalls, alerts, retired, unanswered, request, received>>

\* The clock advances one unit.  A timer that is due fires before the clock
\* moves on, and the close event of a destroyed socket (emitted on the next
\* turn of the event loop) is handled before it does.
Tick ==
    /\ now < MaxTime
    /\ ~TimerDue(SweepInterval, swept)
    /\ \A ws \in wss_clients : readyState[ws] # "CLOSING"
    /\ now' = now + 1
    /\ swept' = FALSE
    /\ last' = Last("tick", "", NoEvent, <<>>, NoResponse, <<>>)
    /\ UNCHANGED <<connectedApps, wss_clients, readyState, isAlive, sendFails,
                   fraudTriggeredCalls, lastFraudAlertByCall, alerts, retired,
                   unanswered, request, received>>

-----------------------------------------------------------------------------
(* Broadcast helper *)

\* the loop over connectedApps of sendToApps: the sockets that were sent the
\* payload, in order, and whether ws.send() raised and ended the loop
RECURSIVE sendLoop(_, _)
sendLoopMut(apps, sent) == [sent |-> apps \o apps, threw |-> FALSE]
sendLoop(apps, sent) ==
    IF apps = <<>> THEN [sent |-> sent, threw |-> FALSE]
    ELSE LET ws == Head(apps)
         IN IF readyState[ws] = "OPEN"
            THEN IF sendFails[ws]
                 THEN [sent |-> sent, threw |-> TRUE]
                 ELSE sendLoop(Tail(apps), Append(sent, ws))
            ELSE sendLoop(Tail(apps), sent)

\* event.type === 'FRAUD_ALERT' && event.callId
isBufferedMut(event) == Truthy(event.callId)
isBuffered(event) == event.type = "FRAUD_ALERT" /\ Truthy(event.callId)

\* function sendToApps(event)
sendToApps(event) ==
    LET loop == sendLoop(connectedApps, <<>>)
    IN [buffer |-> IF isBuffered(event)
                   THEN MapSet(lastFraudAlertByCall, event.callId,
                               [event |-> event, ts |-> now])
                   ELSE lastFraudAlertByCall,
        sent |-> loop.sent,
        threw |-> loop.threw]

-----------------------------------------------------------------------------
(* Vapi webhook *)

\* message?.type
hasTypeMut(message) == TRUE
hasType(message) == Truthy(message.type)

\* fraudTriggeredCalls.has(callId)
alreadyTriggeredMut(callId) == FALSE
alreadyTriggered(callId) == callId \in fraudTriggeredCalls

\* JSON.parse of the argument texts of ToolArguments: the value, or a throw
JSONParses(text) == text = "{\"upi\":\"a@b\"}"
JSONParse(text) == [type |-> "object", value |-> "scamData"]

\* What one run of the handler does: the registries it leaves, the event it
\* hands to sendToApps (NoEvent when it broadcasts nothing), the sockets the
\* event was sent to, the callId it retires ("" when none) and its response.
Quiet(response) ==
    [triggered |-> fraudTriggeredCalls, buffer |-> lastFraudAlertByCall,
     event |-> NoEvent, sent |-> <<>>, retire |-> "", response |-> response]

\* fraudKeywords.filter(k => text.includes(k)), tabulated over the lowercased
\* texts the model feeds to the handler
detectedIn ==
    [text \in {toLowerCase(raw) : raw \in Transcripts \cup ClassifierTexts} |->
        filter(fraudKeywords, text)]

transcriptBranchMut(message) ==
    [Quiet(Success) EXCEPT !.triggered =
        IF Len(detectedIn[toLowerCase(message.transcript)]) > 0
        THEN fraudTriggeredCalls \cup {Or3(message.call_id, message.callId, "unknown")}
        ELSE fraudTriggeredCalls]
transcriptBranch(message) ==
    LET raw == message.transcript
        text == toLowerCase(raw)
        callId == Or3(message.call_id, message.callId, "unknown")
        transcriptType == IF Truthy(message.transcriptType)
                          THEN message.transcriptType ELSE "unknown"
        detected == detectedIn[text]
        event == [type |-> "FRAUD_ALERT",
                  severity |-> severity(detected),
                  keywords |-> dedupe(detected),
                  transcript |-> raw,
                  transcriptType |-> transcriptType,
                  callId |-> callId,
                  confidence |-> confidence(detected),
                  timestamp |-> now]
        s == sendToApps(event)
    IN IF Len(detected) > 0 /\ ~alreadyTriggered(callId)
       THEN [triggered |-> fraudTriggeredCalls \cup {callId},
             buffer |-> s.buffer, event |-> event, sent |-> s.sent, retire |-> "",
             response |-> IF s.threw THEN ServerError ELSE Success]
       ELSE Quiet(Success)

toolCallsBranch(message) ==
    LET toolCall == message.toolCall
        callId == IF Truthy(message.call_id) THEN message.call_id ELSE "unknown"
        args == IF toolCall.arguments.type = "string" /\ JSONParses(toolCall.arguments.value)
                THEN JSONParse(toolCall.arguments.value)
                ELSE toolCall.arguments
        event == [type |-> "SCAM_DATA_CAPTURED", data |-> args,
                  callId |-> callId, timestamp |-> now]
        s == sendToApps(event)
    IN IF toolCall.name = "log_scam_data"
       THEN [triggered |-> fraudTriggeredCalls,
             buffer |-> s.buffer, event |-> event, sent |-> s.sent, retire |-> "",
             response |-> IF s.threw THEN ServerError ELSE Logged(toolCall.id)]
       ELSE Quiet(Success)

\* message.status === 'ended' && message.call?.id
isTerminalMut(message) == FALSE
isTerminal(message) == message.status = "ended" /\ Truthy(message.call_id)

statusUpdateBranch(message) ==
    LET event == [type |-> "CALL_STATUS", status |-> message.status,
                  callId |-> message.call_id, timestamp |-> now]
        s == sendToApps(event)
    IN IF ~s.threw /\ isTerminal(message)
       THEN [triggered |-> fraudTriggeredCalls \ {message.call_id},
             buffer |-> MapDelete(s.buffer, message.call_id),
             event |-> event, sent |-> s.sent, retire |-> message.call_id,
             response |-> Success]
       ELSE [triggered |-> fraudTriggeredCalls,
             buffer |-> s.buffer, event |-> event, sent |-> s.sent, retire |-> "",
             response |-> IF s.threw THEN ServerError ELSE Success]

handle(message) ==
    IF ~hasType(message) THEN Quiet(Ignored)
    ELSE IF message.type = "transcript" THEN transcriptBranch(message)
    ELSE IF message.type = "tool-calls" THEN toolCallsBranch(message)
    ELSE IF message.type = "status-update" THEN statusUpdateBranch(message)
    ELSE Quiet(Success)

\* app.post('/vapi-webhook'), message being the body after lines 114-115
VapiWebhook(message) ==
    LET r == handle(message)
    IN /\ fraudTriggeredCalls' = r.triggered
       /\ lastFraudAlertByCall' = r.buffer
       /\ alerts' = [k \in CallIds |->
             IF r.retire = k THEN 0
             ELSE IF r.event.type = "FRAUD_ALERT" /\ r.event.callId = k
                  THEN Min(alerts[k] + 1, 2)
                  ELSE alerts[k]]
       /\ retired' = [k \in CallIds |->
             retired[k] \/ (r.retire = k /\ k \in fraudTriggeredCalls)]
       /\ received' = [w \in Sockets |-> [k \in CallIds |->
             IF r.event.type = "FRAUD_ALERT" /\ r.event.callId = k
             THEN Min(Cardinality({i \in 1..Len(r.sent) : r.sent[i] = w}), 2)
             ELSE received[w][k]]]
       /\ last' = Last("webhook", message, r.event, r.sent, r.response, <<>>)
       /\ UNCHANGED <<now, swept, connectedApps, wss_clients, readyState,
                      isAlive, sendFails, unanswered, request>>

-----------------------------------------------------------------------------
(* The server *)

Sockets1 == {"ws1"}

Webhooks(T, C, U, O) ==
    \/ \E message \in T : VapiWebhook(message)
    \/ \E message \in C : VapiWebhook(message)
    \/ \E message \in U : VapiWebhook(message)
    \/ \E message \in O : VapiWebhook(message)

\* The events of one call, named by message.call.id
OneCallTranscripts == {m \in TranscriptMessages : m.call_id = "c1" /\ m.callId = ""}
OneCallToolCalls == {m \in ToolCallsMessages : m.call_id = "c1" /\ m.toolCall.arguments.type = "object"}
OneCallStatusUpdates == {m \in StatusUpdateMessages : m.call_id = "c1" /\ m.callId = ""}
NoTypeMessages == {m \in OtherMessages : m.type = ""}
\* the tool calls of that call with every shape of arguments
OneCallToolCallsOfAnyArguments == {m \in ToolCallsMessages : m.call_id = "c1"}

\* The whole server: one mobile app, the keep-alive, the clock, the cleanup
\* and the events of one call
Next ==
    \/ \E ws \in Sockets1 : Connection(ws)
    \/ \E ws \in Sockets1 : Pong(ws)
    \/ \E ws \in Sockets1 : Close(ws)
    \/ \E ws \in Sockets1 : TransportFault(ws)
    \/ ProbeLiveness
    \/ Cleanup
    \/ Tick
    \/ Webhooks(OneCallTranscripts, OneCallToolCallsOfAnyArguments, OneCallStatusUpdates,
                NoTypeMessages)

Spec == Init /\ [][Next]_vars

\* The call registry: transcript and status-update events that name the call
\* by either field or not at all, the clock, the cleanup and one mobile app
\* that attaches and detaches, without the keep-alive and with a transport
\* that stays writable
NextRegistry ==
    \/ \E ws \in Sockets1 : Connection(ws)
    \/ \E ws \in Sockets1 : Close(ws)
    \/ Cleanup
    \/ Tick
    \/ Webhooks(TranscriptMessages, OneCallToolCalls, StatusUpdateMessages, OtherMessages)

SpecRegistry == Init /\ [][NextRegistry]_vars

\* The alert socket: two mobile apps, the keep-alive and the broadcasts of
\* one call, at one instant of the clock
NextSockets ==
    \/ \E ws \in Sockets : Connection(ws)
    \/ \E ws \in Sockets : Pong(ws)
    \/ \E ws \in Sockets : Close(ws)
    \/ \E ws \in Sockets : TransportFault(ws)
    \/ ProbeLiveness
    \/ Webhooks(OneCallTranscripts, OneCallToolCalls, OneCallStatusUpdates, NoTypeMessages)

SpecSockets == Init /\ [][NextSockets]_vars

\* The classifier: one transcript event on a server that has just started
InitClassify ==
    /\ ServerInit
    /\ request \in ClassifierMessages

NextClassify ==
    /\ last.op = "init"
    /\ VapiWebhook(request)

SpecClassify == InitClassify /\ [][NextClassify]_vars

-----------------------------------------------------------------------------
(* Vocabulary of the properties *)

\* the last callback was the webhook handler, given an event of this kind
Handled(type) == last.op = "webhook" /\ last.input.type = type

\* the callId a transcript event names, by any of its fields
NamedCall(message) == Or3(message.call_id, message.callId, "unknown")

\* the indicator phrases that occur in the lowercased text
Indicators(raw) == {k \in Range(fraudKeywords) : includes(toLowerCase(raw), k)}

Qualifying(message) == message.type = "transcript" /\ Indicators(message.transcript) # {}

Buffered == MapKeys(lastFraudAlertByCall)

Count(seq, P(_)) == Cardinality({i \in 1..Len(seq) : P(seq[i])})

-----------------------------------------------------------------------------
(* C1: between two retirements of a callId at most one FRAUD_ALERT is      *)
(* broadcast for it, whatever transcript, tool-call, status-update,        *)
(* attach, keep-alive and cleanup events interleave.                       *)
C1_AtMostOneAlert == \A k \in CallIds : alerts[k] <= 1

\* a qualifying transcript was handled for a call that is triggered already,
\* and nothing was broadcast
C1_Witness ==
    /\ Handled("transcript")
    /\ Qualifying(last.input)
    /\ last.event.type = "none"
    /\ alerts[NamedCall(last.input)] = 1

(* C2: a status-update with a terminal status retires the callId, and the  *)
(* next qualifying transcript for a retired callId broadcasts a new        *)
(* FRAUD_ALERT and triggers the call again.                                *)
C2_RetriggerAfterRetire ==
    [][\A k \in CallIds :
        /\ ( /\ last'.op = "webhook"
             /\ last'.input.type = "status-update"
             /\ last'.input.status = "ended"
             /\ last'.input.call_id = k
             /\ last'.response.status = 200 )
           => (k \notin fraudTriggeredCalls' /\ k \notin Buffered')
        /\ ( /\ k \notin fraudTriggeredCalls
             /\ last'.op = "webhook"
             /\ Qualifying(last'.input)
             /\ NamedCall(last'.input) = k )
           => ( /\ last'.event.type = "FRAUD_ALERT"
                /\ last'.event.callId = k
                /\ k \in fraudTriggeredCalls'
                /\ alerts'[k] = 1 )
      ]_vars

\* a call that was retired has triggered again
C2_Witness ==
    /\ Handled("transcript")
    /\ last.event.type = "FRAUD_ALERT"
    /\ retired[last.event.callId]
    /\ last.event.callId \in fraudTriggeredCalls

(* C3: a socket that attaches is sent exactly one copy, tagged replay, of  *)
(* every buffered FRAUD_ALERT younger than the TTL, and no copy of a       *)
(* buffered alert whose age is the TTL or more.                            *)
C3_ReplayWithinTTL ==
    last.op = "connection" =>
        /\ \A i \in 1..Len(lastFraudAlertByCall) :
              LET e == lastFraudAlertByCall[i]
                  IsCopy(r) == /\ r.type = "FRAUD_ALERT"
                               /\ r.callId = e.key
                               /\ r.timestamp = e.value.event.timestamp
                               /\ r.keywords = e.value.event.keywords
              IN Count(last.replays, IsCopy) = IF now - e.value.ts < TTL THEN 1 ELSE 0
        /\ \A j \in 1..Len(last.replays) :
              /\ last.replays[j].replay = TRUE
              /\ last.replays[j].callId \in Buffered

\* a socket attached while one buffered alert was younger than the TTL and
\* another was not
C3_Witness ==
    /\ last.op = "connection"
    /\ Len(last.replays) = 1
    /\ \E i \in 1..Len(lastFraudAlertByCall) : now - lastFraudAlertByCall[i].value.ts >= TTL

(* C4: after a run of the cleanup no callId is left triggered without its  *)
(* buffered alert: the cleanup that removes the buffered alert of a call   *)
(* past the TTL removes its triggered mark too.                            *)
C4_SweepRetires ==
    last.op = "cleanup" => \A k \in fraudTriggeredCalls : k \in Buffered

(* C5: a status-update with status "ended" for a triggered call, naming    *)
(* the call as the transcript event did, removes the triggered mark and    *)
(* the buffered alert of that callId.                                      *)
C5_EndedRetires ==
    [][\A k \in CallIds :
        ( /\ last'.op = "webhook"
          /\ last'.input.type = "status-update"
          /\ last'.input.status = "ended"
          /\ last'.response.status = 200
          /\ NamedCall(last'.input) = k
          /\ k \in fraudTriggeredCalls )
        => (k \notin fraudTriggeredCalls' /\ k \notin Buffered')
      ]_vars

(* C6: a socket that never answers a ping is terminated by the second      *)
(* keep-alive cycle after it attached and is gone from connectedApps       *)
(* before a third; no broadcast is sent to a socket that is not an open    *)
(* member of connectedApps.                                                *)
C6_SilentSocketEvicted ==
    /\ \A ws \in Sockets :
          (ws \in Range(connectedApps) /\ unanswered[ws] >= 0) =>
              /\ unanswered[ws] <= 2
              /\ unanswered[ws] = 2 => readyState[ws] = "CLOSING"
    /\ last.op = "webhook" =>
          \A ws \in Range(last.sent) :
              ws \in Range(connectedApps) /\ readyState[ws] = "OPEN"

\* a silent socket has been terminated and a broadcast went to the other one
C6_Witness ==
    /\ last.op = "webhook"
    /\ Len(last.sent) = 1
    /\ \E ws \in Range(connectedApps) :
          unanswered[ws] = 2 /\ readyState[ws] = "CLOSING"

(* C7: a broadcast whose send fails on one socket still completes: the     *)
(* handler acknowledges and every other open socket of connectedApps is    *)
(* sent the alert.                                                         *)
C7_SendFailureIsolated ==
    (last.op = "webhook" /\ last.event.type # "none") =>
        /\ last.response.status = 200
        /\ \A ws \in Range(connectedApps) :
              (readyState[ws] = "OPEN" /\ ~sendFails[ws]) => ws \in Range(last.sent)

(* C8: with n the number of distinct indicator phrases in the lowercased   *)
(* transcript: n = 0 gives no FRAUD_ALERT, n = 1 severity MEDIUM, n >= 2   *)
(* severity HIGH; confidence is min(95, 30 n) and the keywords are exactly *)
(* those n phrases, each once.  "please share your otp for kyc             *)
(* verification" gives {otp, kyc}, HIGH, 60.                               *)
C8_Classification ==
    Handled("transcript") =>
        LET found == Indicators(request.transcript)
            n == Cardinality(found)
            e == last.event
        IN /\ n = 0 => e.type = "none"
           /\ n >= 1 =>
                /\ e.type = "FRAUD_ALERT"
                /\ e.severity = (IF n = 1 THEN "MEDIUM" ELSE "HIGH")
                /\ e.confidence = (IF 30 * n < 95 THEN 30 * n ELSE 95)
                /\ Range(e.keywords) = found
                /\ Len(e.keywords) = n
           /\ request.transcript = ShareOtpKyc =>
                /\ Range(e.keywords) = {<<"o","t","p">>, <<"k","y","c">>}
                /\ e.severity = "HIGH"
                /\ e.confidence = 60

\* the example transcript has been classified
C8_Witness ==
    /\ Handled("transcript")
    /\ request.transcript = ShareOtpKyc
    /\ last.event.type = "FRAUD_ALERT"

(* C9 as stated: an event with no event kind, or a transcript event with   *)
(* no callId, is dropped: nothing is broadcast, neither registry changes   *)
(* and the sender gets a success acknowledgment.                           *)
C9_MalformedDropped ==
    [][( /\ last'.op = "webhook"
         /\ \/ ~Truthy(last'.input.type)
            \/ /\ last'.input.type = "transcript"
               /\ ~Truthy(last'.input.call_id)
               /\ ~Truthy(last'.input.callId) )
       => ( /\ last'.event.type = "none"
            /\ UNCHANGED <<fraudTriggeredCalls, lastFraudAlertByCall,
                           connectedApps, wss_clients>>
            /\ last'.response.status = 200 )
      ]_vars

(* C9 amended: an event with no event kind is dropped, with nothing        *)
(* broadcast, no registry changed and the acknowledgment { ignored: true };*)
(* a transcript event with no callId is handled as the call "unknown" and  *)
(* triggers it when it qualifies and "unknown" is not triggered yet.       *)
C9_NoTypeDropped ==
    [][/\ ( /\ last'.op = "webhook"
            /\ ~Truthy(last'.input.type) )
          => ( /\ last'.event.type = "none"
               /\ last'.sent = <<>>
               /\ UNCHANGED <<fraudTriggeredCalls, lastFraudAlertByCall,
                              connectedApps, wss_clients>>
               /\ last'.response = Ignored )
       /\ ( /\ last'.op = "webhook"
            /\ Qualifying(last'.input)
            /\ ~Truthy(last'.input.call_id)
            /\ ~Truthy(last'.input.callId)
            /\ "unknown" \notin fraudTriggeredCalls )
          => ( /\ last'.event.type = "FRAUD_ALERT"
               /\ last'.event.callId = "unknown"
               /\ "unknown" \in fraudTriggeredCalls' )
      ]_vars

\* an event with no event kind was handled while a call was triggered and
\* an app attached
C9_Witness ==
    /\ last.op = "webhook"
    /\ ~Truthy(last.input.type)
    /\ last.response = Ignored
    /\ fraudTriggeredCalls # {}
    /\ connectedApps # <<>>

(* C10: every tool-calls event for log_scam_data broadcasts one            *)
(* SCAM_DATA_CAPTURED alert and is answered { toolCallId, result:          *)
(* "Logged" }, whether or not the call has triggered, and leaves the       *)
(* triggered marks and the replay buffer as they were.                     *)
C10_ScamDataLogged ==
    [][( /\ last'.op = "webhook"
         /\ last'.input.type = "tool-calls"
         /\ last'.input.toolCall.name = "log_scam_data" )
       => ( /\ last'.event.type = "SCAM_DATA_CAPTURED"
            /\ last'.response = Logged(last'.input.toolCall.id)
            /\ UNCHANGED <<fraudTriggeredCalls, lastFraudAlertByCall>> )
      ]_vars

(* C11: the arguments of a log_scam_data tool call that are raw text which *)
(* does not parse are forwarded unchanged as the data of the               *)
(* SCAM_DATA_CAPTURED alert, and the event is still answered "Logged".     *)
C11_RawArgumentsForwarded ==
    ( /\ Handled("tool-calls")
      /\ last.input.toolCall.name = "log_scam_data"
      /\ last.input.toolCall.arguments = [type |-> "string", value |-> "upi a@b"] )
    => ( /\ last.event.type = "SCAM_DATA_CAPTURED"
         /\ last.event.data = last.input.toolCall.arguments
         /\ last.response = Logged(last.input.toolCall.id) )

(* C12: an attach sends the replay copies to the socket that attached and  *)
(* to no other socket of connectedApps, and leaves the triggered marks,    *)
(* the buffered alerts and their timestamps as they were.                  *)
C12_ReplayToNewSocketOnly ==
    [][last'.op = "connection" =>
          /\ Len(last'.sent) = Len(last'.replays)
          /\ \A i \in 1..Len(last'.sent) : last'.sent[i] = last'.input
          /\ last'.input \notin Range(connectedApps)
          /\ UNCHANGED <<fraudTriggeredCalls, lastFraudAlertByCall>>
      ]_vars

\* a socket attached and was replayed an alert while another was attached
C12_Witness ==
    /\ last.op = "connection"
    /\ Len(last.replays) = 1
    /\ \E ws \in Range(connectedApps) : ws # last.input /\ readyState[ws] = "OPEN"

(* C13: right after a run of the cleanup at time now no buffered alert     *)
(* whose age now - ts is the TTL or more is left; the alert whose age is   *)
(* exactly the TTL is removed too.                                         *)
C13_SweepRemovesAtTTL ==
    last.op = "cleanup" =>
        \A i \in 1..Len(lastFraudAlertByCall) :
            now - lastFraudAlertByCall[i].value.ts < TTL

(* C14: a transcript event with no indicator phrase, or for a callId that  *)
(* is triggered already, broadcasts nothing and leaves the triggered marks *)
(* and the buffered alerts, with their timestamps, as they were.           *)
C14_NoOpTranscript ==
    [][( /\ last'.op = "webhook"
         /\ last'.input.type = "transcript"
         /\ \/ Indicators(last'.input.transcript) = {}
            \/ NamedCall(last'.input) \in fraudTriggeredCalls )
       => ( /\ last'.event = NoEvent
            /\ last'.sent = <<>>
            /\ last'.response = Success
            /\ UNCHANGED <<fraudTriggeredCalls, lastFraudAlertByCall, alerts>> )
      ]_vars

\* a qualifying transcript was handled for a triggered call whose buffered
\* alert is older than the event, and the alert kept its timestamp
C14_Witness ==
    /\ Handled("transcript")
    /\ Qualifying(last.input)
    /\ last.event = NoEvent
    /\ NamedCall(last.input) \in fraudTriggeredCalls
    /\ \E i \in 1..Len(lastFraudAlertByCall) :
          /\ lastFraudAlertByCall[i].key = NamedCall(last.input)
          /\ lastFraudAlertByCall[i].value.ts < now

(* C15: no connection is sent the same FRAUD_ALERT more than once: a       *)
(* broadcast sends each open socket at most one copy, and whichever way an *)
(* attach and a transcript event interleave a connection never gets both   *)
(* the live copy and a replay copy of one alert.                           *)
C15_AtMostOnceDelivery ==
    /\ \A ws \in Sockets : \A k \in CallIds : received[ws][k] <= 1
    /\ last.op = "webhook" =>
          \A i, j \in 1..Len(last.sent) : last.sent[i] = last.sent[j] => i = j

\* a socket attached after the broadcast and was replayed the alert that
\* another attached socket had been sent live
C15_Witness ==
    /\ last.op = "connection"
    /\ \E k \in CallIds :
          /\ received[last.input][k] = 1
          /\ \E ws \in Range(connectedApps) : ws # last.input /\ received[ws][k] = 1

(* C16: every callId marked triggered has had a FRAUD_ALERT handed to the  *)
(* broadcast since its last retirement, and a step that sets the triggered *)
(* mark of a callId hands a FRAUD_ALERT for that callId to the broadcast.  *)
C16_TriggeredImpliesAlert ==
    [][\A k \in CallIds :
         /\ k \in fraudTriggeredCalls' => alerts'[k] >= 1
         /\ (k \notin fraudTriggeredCalls /\ k \in fraudTriggeredCalls')
              => ( /\ last'.op = "webhook"
                   /\ last'.event.type = "FRAUD_ALERT"
                   /\ last'.event.callId = k )
      ]_vars

\* the cleanup has removed the buffered alert of a call that stays triggered
C16_Witness ==
    /\ last.op = "cleanup"
    /\ \E k \in fraudTriggeredCalls : k \notin Buffered /\ alerts[k] = 1

(* C17: the callIds with a buffered alert are always among the callIds     *)
(* marked triggered, whatever webhook events, cleanups and retirements     *)
(* have happened.                                                          *)
C17_BufferedSubsetTriggered == Buffered \subseteq fraudTriggeredCalls

\* a status-update has retired a triggered call while the alert of another
\* call is buffered
C17_Witness ==
    /\ Handled("status-update")
    /\ last.input.status = "ended"
    /\ last.input.call_id \in CallIds
    /\ retired[last.input.call_id]
    /\ last.input.call_id \notin fraudTriggeredCalls
    /\ Buffered # {}

(* C18: the keep-alive timer terminates exactly the attached sockets whose *)
(* isAlive flag is still false from the cycle before; a pong sets the flag *)
(* back to true and only the timer clears it, so a socket whose pong       *)
(* arrives before the next cycle is never terminated and stays in          *)
(* connectedApps until its close event.                                    *)
C18_ResponsiveSocketKept ==
    [][
        /\ (last'.op = "probe") =>
              \A ws \in wss_clients :
                  /\ (readyState'[ws] = "CLOSING") <=> (isAlive[ws] = FALSE)
                  /\ isAlive[ws] => (readyState'[ws] = readyState[ws])
        /\ (last'.op = "pong") => (isAlive'[last'.input] = TRUE)
        /\ (last'.op # "probe") =>
              \A ws \in Sockets :
                  /\ (ws \in wss_clients /\ ws \in wss_clients' /\ isAlive[ws]) => isAlive'[ws]
                  /\ (readyState'[ws] = "CLOSING") => (readyState[ws] = "CLOSING")
        /\ (last'.op # "close") => (Range(connectedApps) \subseteq Range(connectedApps'))
      ]_vars

\* a socket that answered the ping before has come through a cycle that
\* terminated the other socket
C18_Witness ==
    /\ last.op = "probe"
    /\ \E ws \in Range(connectedApps) :
          /\ unanswered[ws] = -1
          /\ readyState[ws] = "OPEN"
          /\ \E other \in Range(connectedApps) :
                other # ws /\ readyState[other] = "CLOSING"

(* C19: only FRAUD_ALERT events are buffered and replayed: the buffer      *)
(* holds at most one alert per callId, filed under the callId of the       *)
(* alert, every replay is a FRAUD_ALERT, and the broadcast of a            *)
(* SCAM_DATA_CAPTURED or CALL_STATUS event neither adds an entry to the    *)
(* buffer nor overwrites one.                                              *)
C19_OnlyFraudAlertsBuffered ==
    [][
        /\ \A i \in 1..Len(lastFraudAlertByCall') :
              /\ lastFraudAlertByCall'[i].value.event.type = "FRAUD_ALERT"
              /\ lastFraudAlertByCall'[i].value.event.callId = lastFraudAlertByCall'[i].key
        /\ Cardinality(Buffered') = Len(lastFraudAlertByCall')
        /\ \A j \in 1..Len(last'.replays) : last'.replays[j].type = "FRAUD_ALERT"
        /\ (last'.op = "webhook" /\ last'.event.type \in {"SCAM_DATA_CAPTURED", "CALL_STATUS"}) =>
              \A i \in 1..Len(lastFraudAlertByCall') :
                  \E j \in 1..Len(lastFraudAlertByCall) :
                      lastFraudAlertByCall[j] = lastFraudAlertByCall'[i]
      ]_vars

\* a tool call of a call whose FRAUD_ALERT is buffered was broadcast, and the
\* buffered alert is still there
C19_Witness ==
    /\ Handled("tool-calls")
    /\ last.event.type = "SCAM_DATA_CAPTURED"
    /\ last.event.callId \in Buffered

=============================================================================
